---- MODULE Spec2Model ----
(***************************************************************************)
(* A model of simplepydsp/pcm_wave.py: the PCM WAVE (RIFF) reader and      *)
(* writer.  A byte string is a sequence of integers 0..255, a frame is a   *)
(* sequence of integer samples.  One WaveWriter writes into `sink`; a      *)
(* WaveReader is then constructed over `src`, the bytes of the sink as the *)
(* environment hands them over (whole, cut short, or with header fields    *)
(* overwritten).  A generator (read_raw_frames, read_frames) is modelled   *)
(* as consumed to its end by the caller: `out` holds what it yielded and   *)
(* `err` the exception that ended it, if any.                              *)
(*                                                                         *)
(* Attribute values are drawn from sets whose header fields fit their      *)
(* widths, so struct.pack never fails inside write_header.                 *)
(***************************************************************************)
EXTENDS Integers, Sequences, FiniteSets, TLC

VARIABLES writer, sink, snap, payload, wop, log, ops,
          src, damage, rstate, rerr, reader, pos, rop

wvars == <<writer, sink, snap, payload, wop, log, ops>>
rvars == <<src, damage, rstate, rerr, reader, pos, rop>>
vars == <<writer, sink, snap, payload, wop, log, ops,
          src, damage, rstate, rerr, reader, pos, rop>>

(***************************************************************************)
(* Bounds and input sets of the model.                                     *)
(***************************************************************************)
\* most operations (setter and write calls) made on the Writer
MaxOps == 4
\* most bytes of sample data the sink takes after the header
MaxPayload == 6
\* most frames handed to one write_frames call
MaxFrames == 2
\* largest frame count asked of one read call
MaxCount == 2
\* most bytes the environment cuts off the end of the written stream
MaxCut == 2

ChannelChoices == {1, 2}
WidthChoices == {1, 2, 3}
RateChoices == {8000}
FrameCountChoices == {1, 2}
RawChoices == {<<>>, <<7>>}

Min(a, b) == IF a < b THEN a ELSE b

RECURSIVE Pow(_, _)
Pow(b, e) == IF e = 0 THEN 1 ELSE b * Pow(b, e - 1)

RECURSIVE Flatten(_)
Flatten(ss) == IF ss = <<>> THEN <<>> ELSE Head(ss) \o Flatten(Tail(ss))

Tuples(S, n) == [1..n -> S]
SeqsUpTo(S, n) == UNION {Tuples(S, k) : k \in 0..n}

FrameChoices == {<<-1>>, <<100, -1>>}
DataChoices == SeqsUpTo(FrameChoices, MaxFrames)

(***************************************************************************)
(* The byte codec: struct.pack / struct.unpack with '<' or '>' (standard   *)
(* sizes, no alignment).                                                   *)
(***************************************************************************)
\* format_map of read_frames and write_frames: width -> 'b', 'h', 'l', 'q'
format_map == {1, 2, 4, 8}

\* 2 ** int(round(byte_count ** 0.5 + 0.5)): round(sqrt(w) + 0.5) is the
\* k with (k-1)^2 <= w < k^2 (Python 2 rounds the tie, a whole sqrt(w),
\* away from zero, to k as well).
NextPower(byte_count) ==
    LET k == CHOOSE j \in 1..(byte_count + 1) :
                 (j - 1) * (j - 1) <= byte_count /\ byte_count < j * j
    IN  Pow(2, k)

\* whether struct.pack takes v for a signed integer of w bytes
FitsSigned(v, w) ==
    \/ w >= 4
    \/ (-(Pow(256, w) \div 2) <= v /\ v < Pow(256, w) \div 2)

\* little-endian bytes of v in w bytes (two's complement for v < 0)
PackLE(v, w) == [k \in 1..w |-> (v \div Pow(256, k - 1)) % 256]

RECURSIVE SumLE(_, _)
SumLE(b, k) ==
    IF k > Len(b) THEN 0 ELSE b[k] * Pow(256, k - 1) + SumLE(b, k + 1)

\* struct.unpack('<H' / '<L'): unsigned little-endian
UnpackUnsigned(b) == SumLE(b, 1)

\* struct.unpack('<b' / '<h' / '<l'): signed little-endian
UnpackSigned(b) ==
    LET w == Len(b)
        top == IF b[w] >= 128 THEN b[w] - 256 ELSE b[w]
    IN  SumLE(SubSeq(b, 1, w - 1), 1) + top * Pow(256, w - 1)

\* _pack(str(n) + fmt, 'little', *values) for a signed format of width w:
\* struct.error when the number of values is not n or a value is out of range
PackOk(n, w, values) ==
    Len(values) = n /\ \A i \in 1..Len(values) : FitsSigned(values[i], w)

_pack(w, values) == Flatten([i \in 1..Len(values) |-> PackLE(values[i], w)])

\* _unpack(str(n) + fmt, 'little', data) for a signed format of width w:
\* struct.error unless data holds exactly n * w bytes; a single value comes
\* back as a scalar, two or more as a tuple.
_unpack(n, w, data) ==
    IF Len(data) # n * w
    THEN [kind |-> "struct.error", vals |-> <<>>]
    ELSE LET vals == [i \in 1..n |->
                         UnpackSigned(SubSeq(data, (i - 1) * w + 1, i * w))]
         IN  [kind |-> IF Len(vals) < 2 THEN "scalar" ELSE "tuple",
              vals |-> vals]

(***************************************************************************)
(* The header.                                                             *)
(***************************************************************************)
TagRIFF == <<82, 73, 70, 70>>
TagWAVE == <<87, 65, 86, 69>>
TagFmt == <<102, 109, 116, 32>>
TagData == <<100, 97, 116, 97>>

\* write_header with the data chunk size counted in samples, not in bytes
write_header_size_in_samples(w) ==
    LET size == 36 + w.frames * w.channels * w.sample_width
        riff_chunk == TagRIFF \o PackLE(size, 4) \o TagWAVE
        byte_rate == w.frame_rate * w.channels * w.sample_width
        wave_chunk == TagFmt \o PackLE(16, 4) \o PackLE(1, 2)
                        \o PackLE(w.channels, 2) \o PackLE(w.frame_rate, 4)
                        \o PackLE(byte_rate, 4)
                        \o PackLE(w.channels * w.sample_width, 2)
                        \o PackLE(w.sample_width * 8, 2)
        data_size == w.frames * w.channels
        data_chunk == TagData \o PackLE(data_size, 4)
    IN  riff_chunk \o wave_chunk \o data_chunk

\* WaveWriter.write_header: the 44 bytes written for the attributes of w
write_header(w) ==
    LET size == 36 + w.frames * w.channels * w.sample_width
        riff_chunk == TagRIFF \o PackLE(size, 4) \o TagWAVE
        byte_rate == w.frame_rate * w.channels * w.sample_width
        wave_chunk == TagFmt \o PackLE(16, 4) \o PackLE(1, 2)
                        \o PackLE(w.channels, 2) \o PackLE(w.frame_rate, 4)
                        \o PackLE(byte_rate, 4)
                        \o PackLE(w.channels * w.sample_width, 2)
                        \o PackLE(w.sample_width * 8, 2)
        data_size == w.frames * w.channels * w.sample_width
        data_chunk == TagData \o PackLE(data_size, 4)
    IN  riff_chunk \o wave_chunk \o data_chunk

(***************************************************************************)
(* WaveWriter.                                                             *)
(***************************************************************************)
Attrs(w) == [channels |-> w.channels, sample_width |-> w.sample_width,
             frame_rate |-> w.frame_rate, frames |-> w.frames]

\* WaveWriter.set_defaults
set_defaults == [channels |-> 0, sample_width |-> 0, frame_rate |-> 0,
                 frames |-> 0, header_written |-> FALSE]

NoSnap == [channels |-> -1, sample_width |-> -1, frame_rate |-> -1,
           frames |-> -1]

\* The bytes one frame adds in the loop of write_frames, and the exception
\* that loop raises at this frame ("none" when it is packed).
FrameBytes(w, frame) ==
    LET byte_count == w.sample_width
    IN  IF byte_count % 2 = 1 /\ byte_count > 1
        THEN LET next_power == NextPower(byte_count)
                 first_bad == CHOOSE i \in 1..(Len(frame) + 1) :
                     /\ \A j \in 1..(i - 1) : FitsSigned(frame[j], next_power)
                     /\ (i <= Len(frame) => ~FitsSigned(frame[i], next_power))
             IN  IF next_power \notin format_map
                 THEN [bytes |-> <<>>,
                       err |-> IF frame = <<>> THEN "none" ELSE "KeyError"]
                 ELSE [bytes |-> Flatten([j \in 1..(first_bad - 1) |->
                           \* sample[-byte_count:], the last byte_count bytes
                           SubSeq(PackLE(frame[j], next_power),
                                  next_power - byte_count + 1, next_power)]),
                       err |-> IF first_bad <= Len(frame)
                               THEN "struct.error" ELSE "none"]
        ELSE IF byte_count \notin format_map
             THEN [bytes |-> <<>>, err |-> "KeyError"]
             ELSE IF ~PackOk(w.channels, byte_count, frame)
                  THEN [bytes |-> <<>>, err |-> "struct.error"]
                  ELSE [bytes |-> _pack(byte_count, frame), err |-> "none"]

\* The sample bytes write_frames(data) hands to the file, frame after frame
\* up to the first frame that raises, and the exception raised.
EncodeFrames(w, data) ==
    LET enc == [i \in 1..Len(data) |-> FrameBytes(w, data[i])]
        first_bad == CHOOSE i \in 1..(Len(data) + 1) :
            /\ \A j \in 1..(i - 1) : enc[j].err = "none"
            /\ (i <= Len(data) => enc[i].err # "none")
    IN  [bytes |-> Flatten([j \in 1..Min(first_bad, Len(data)) |->
                               enc[j].bytes]),
         err |-> IF first_bad <= Len(data) THEN enc[first_bad].err
                 ELSE "none"]

\* a write operation that does not look at header_written
HeaderAlways(w) == write_header(w)

\* `if not self.header_written: self.write_header()`
HeaderIfNeeded(w) == IF w.header_written THEN <<>> ELSE write_header(w)

Writing == rstate = "none"

MoreOps == Writing /\ ops < MaxOps

Room(bytes) == Len(payload) + Len(bytes) <= MaxPayload

Set(w) ==
    /\ MoreOps
    /\ ops' = ops + 1
    /\ writer' = w
    /\ wop' = [op |-> "set", data |-> <<>>, err |-> "none"]
    /\ UNCHANGED <<sink, snap, payload, log>>
    /\ UNCHANGED rvars

set_channels ==
    \E c \in ChannelChoices : Set([writer EXCEPT !.channels = c])

set_frames ==
    \E f \in FrameCountChoices : Set([writer EXCEPT !.frames = f])

set_sample_width ==
    \E s \in WidthChoices : Set([writer EXCEPT !.sample_width = s])

set_frame_rate ==
    \E fr \in RateChoices : Set([writer EXCEPT !.frame_rate = fr])

set_parameters ==
    \E c \in ChannelChoices, s \in WidthChoices, fr \in RateChoices,
       f \in FrameCountChoices :
        Set([writer EXCEPT !.channels = c, !.sample_width = s,
                           !.frame_rate = fr, !.frames = f])

\* What every write operation does with the bytes `body` it hands to the
\* file after the header check.
Write(op, data, body, err) ==
    /\ MoreOps
    /\ Room(body)
    /\ ops' = ops + 1
    /\ sink' = sink \o HeaderIfNeeded(writer) \o body
    /\ writer' = [writer EXCEPT !.header_written = TRUE]
    /\ snap' = IF log.calls = "none" THEN Attrs(writer) ELSE snap
    /\ payload' = payload \o body
    /\ wop' = [op |-> op, data |-> data, err |-> err]
    /\ log' = [calls |-> IF log.calls = "none" THEN "one" ELSE "many",
               clean |-> log.clean /\ op = "write_frames" /\ err = "none"]
    /\ UNCHANGED rvars

write_raw_data ==
    \E data \in RawChoices : Write("write_raw_data", <<>>, data, "none")

write_raw_frames ==
    \E a, b \in RawChoices :
        Write("write_raw_frames", <<>>, Flatten(<<a, b>>), "none")

write_frames ==
    \E data \in DataChoices :
        LET e == EncodeFrames(writer, data)
        IN  Write("write_frames", data, e.bytes, e.err)

(***************************************************************************)
(* WaveReader.                                                             *)
(***************************************************************************)
\* self.file.read(n) at offset p of the byte source b: at most n bytes
FileRead(b, p, n) == SubSeq(b, p + 1, Min(p + n, Len(b)))

NoReader == [channels |-> 0, sample_width |-> 0, frame_rate |-> 0,
             frames |-> 0, block_align |-> 0, bits_per_sample |-> 0,
             frame_size |-> 0]

\* A read of n bytes at offset o that comes back short: struct.unpack
\* raises struct.error on it.
Short(b, o, n) == Len(FileRead(b, o, n)) < n

\* Where the file stands after a read of n bytes at offset o
After(b, o, n) == Min(o + n, Len(b))

Raised(e, p) == [err |-> e, pos |-> p]

\* read_header, "Read the RIFF chunk": chunk_id, chunk_size, format_id
read_riff_chunk(b) ==
    IF Short(b, 0, 4) THEN Raised("struct.error", After(b, 0, 4))
    ELSE IF FileRead(b, 0, 4) # TagRIFF THEN Raised("RIFF", 4)
    ELSE IF Short(b, 4, 4) THEN Raised("struct.error", After(b, 4, 4))
    ELSE IF Short(b, 8, 4) THEN Raised("struct.error", After(b, 8, 4))
    ELSE IF FileRead(b, 8, 4) # TagWAVE THEN Raised("WAVE", 12)
    ELSE Raised("none", 12)

\* read_header, "Read the WAVE sub-chunk", without the audio-format check
read_wave_subchunk_unchecked(b) ==
    IF Short(b, 12, 4) THEN Raised("struct.error", After(b, 12, 4))
    ELSE IF FileRead(b, 12, 4) # TagFmt THEN Raised("fmt", 16)
    ELSE IF Short(b, 16, 4) THEN Raised("struct.error", After(b, 16, 4))
    ELSE IF Short(b, 20, 2) THEN Raised("struct.error", After(b, 20, 2))
    ELSE IF Short(b, 22, 2) THEN Raised("struct.error", After(b, 22, 2))
    ELSE IF Short(b, 24, 4) THEN Raised("struct.error", After(b, 24, 4))
    ELSE IF Short(b, 28, 4) THEN Raised("struct.error", After(b, 28, 4))
    ELSE IF Short(b, 32, 2) THEN Raised("struct.error", After(b, 32, 2))
    ELSE IF Short(b, 34, 2) THEN Raised("struct.error", After(b, 34, 2))
    ELSE Raised("none", 36)

\* read_header, "Read the WAVE sub-chunk": subchunk_id, subchunk_size (read
\* and not looked at), audio_format, channels, frame_rate, byte_rate,
\* block_align, bits_per_sample
read_wave_subchunk(b) ==
    IF Short(b, 12, 4) THEN Raised("struct.error", After(b, 12, 4))
    ELSE IF FileRead(b, 12, 4) # TagFmt THEN Raised("fmt", 16)
    ELSE IF Short(b, 16, 4) THEN Raised("struct.error", After(b, 16, 4))
    ELSE IF Short(b, 20, 2) THEN Raised("struct.error", After(b, 20, 2))
    ELSE IF UnpackUnsigned(FileRead(b, 20, 2)) # 1
         THEN Raised("audio_format", 22)
    ELSE IF Short(b, 22, 2) THEN Raised("struct.error", After(b, 22, 2))
    ELSE IF Short(b, 24, 4) THEN Raised("struct.error", After(b, 24, 4))
    ELSE IF Short(b, 28, 4) THEN Raised("struct.error", After(b, 28, 4))
    ELSE IF Short(b, 32, 2) THEN Raised("struct.error", After(b, 32, 2))
    ELSE IF Short(b, 34, 2) THEN Raised("struct.error", After(b, 34, 2))
    ELSE Raised("none", 36)

\* read_header, "Read the data sub-chunk": data_chunk_id, data_chunk_size
\* and the division by frame_size
read_data_subchunk(b, frame_size) ==
    IF Short(b, 36, 4) THEN Raised("struct.error", After(b, 36, 4))
    ELSE IF FileRead(b, 36, 4) # TagData THEN Raised("data", 40)
    ELSE IF Short(b, 40, 4) THEN Raised("struct.error", After(b, 40, 4))
    ELSE IF frame_size = 0 THEN Raised("ZeroDivisionError", 44)
    ELSE Raised("none", 44)

\* WaveReader.read_header over the byte source b, read from its start: the
\* attributes it sets, or the exception that ends the construction.
read_header(b) ==
    LET riff == read_riff_chunk(b)
        wave == read_wave_subchunk(b)
        channels == UnpackUnsigned(FileRead(b, 22, 2))
        frame_rate == UnpackUnsigned(FileRead(b, 24, 4))
        block_align == UnpackUnsigned(FileRead(b, 32, 2))
        bits_per_sample == UnpackUnsigned(FileRead(b, 34, 2))
        sample_width == bits_per_sample \div 8
        frame_size == channels * sample_width
        data == read_data_subchunk(b, frame_size)
        data_chunk_size == UnpackUnsigned(FileRead(b, 40, 4))
        failed(x) == [state |-> "failed", err |-> x.err, pos |-> x.pos,
                      attrs |-> NoReader]
    IN  IF riff.err # "none" THEN failed(riff)
        ELSE IF wave.err # "none" THEN failed(wave)
        ELSE IF data.err # "none" THEN failed(data)
        ELSE [state |-> "open", err |-> "none", pos |-> 44,
              attrs |-> [channels |-> channels,
                         sample_width |-> sample_width,
                         frame_rate |-> frame_rate,
                         frames |-> data_chunk_size \div frame_size,
                         block_align |-> block_align,
                         bits_per_sample |-> bits_per_sample,
                         frame_size |-> frame_size]]

\* The bytes the environment hands to the reader: the written stream with
\* its last `cut` bytes missing and the header fields of `corrupt`
\* overwritten.
Fields == {"RIFF", "WAVE", "fmt", "fmt_size", "audio_format", "data"}

Overwrite(b, corrupt) ==
    [i \in 1..Len(b) |->
        IF i = 1 /\ "RIFF" \in corrupt THEN 88
        ELSE IF i = 9 /\ "WAVE" \in corrupt THEN 88
        ELSE IF i = 13 /\ "fmt" \in corrupt THEN 88
        ELSE IF i = 17 /\ "fmt_size" \in corrupt THEN 18
        ELSE IF i = 21 /\ "audio_format" \in corrupt THEN 3
        ELSE IF i = 37 /\ "data" \in corrupt THEN 88
        ELSE b[i]]

Damaged(b, dmg) == Overwrite(SubSeq(b, 1, Len(b) - dmg.cut), dmg.corrupt)

NoDamage == [corrupt |-> {}, cut |-> 0]

CorruptChoices == {[corrupt |-> c, cut |-> 0] : c \in SUBSET Fields}

CutChoices == {[corrupt |-> {}, cut |-> k] : k \in 0..MaxCut}

\* WaveReader.__init__ over the bytes of the sink
OpenReader(choices) ==
    \E dmg \in choices :
        /\ Writing
        /\ dmg.cut <= Len(sink)
        /\ dmg.corrupt # {} => Len(sink) >= 44
        /\ LET b == Damaged(sink, dmg)
               h == read_header(b)
           IN  /\ src' = b
               /\ damage' = dmg
               /\ rstate' = h.state
               /\ rerr' = h.err
               /\ reader' = h.attrs
               /\ pos' = h.pos
        /\ UNCHANGED rop
        /\ UNCHANGED wvars

Reading == rstate = "open"

ReadOp(op, count, res) ==
    /\ Reading
    /\ rop' = [op |-> op, count |-> count, out |-> res.out,
               err |-> res.err, start |-> pos]
    /\ pos' = res.pos
    /\ UNCHANGED <<src, damage, rstate, rerr, reader>>
    /\ UNCHANGED wvars

\* WaveReader.read_raw_data(count): None for count = 0 (out stays empty),
\* else the bytes of one read, as one group
RawData(r, b, p, count) ==
    IF count = 0
    THEN [out |-> <<>>, err |-> "none", pos |-> p]
    ELSE LET size == count * r.channels * r.sample_width
             data == FileRead(b, p, size)
         IN  [out |-> <<data>>, err |-> "none", pos |-> p + Len(data)]

\* WaveReader.read_raw_frames(count): a read of `offset` bytes per turn of
\* the loop, yielded when it is not empty
RawFrames(r, b, p, count) ==
    IF count = 0
    THEN [out |-> <<>>, err |-> "none", pos |-> p]
    ELSE LET offset == r.channels * r.sample_width
             group(i) == FileRead(b, p + (i - 1) * offset, offset)
             n == Cardinality({i \in 1..count : group(i) # <<>>})
         IN  [out |-> [i \in 1..n |-> group(i)], err |-> "none",
              pos |-> Min(p + count * offset, Len(b))]

\* WaveReader.read_frames(count)
Frames(r, b, p, count) ==
    IF count = 0
    THEN [out |-> <<>>, err |-> "none", pos |-> p]
    ELSE LET byte_count == r.sample_width
             offset == r.channels * r.sample_width
             size == count * offset
         IN  IF byte_count % 2 = 1 /\ byte_count > 1
             THEN \* reads byte_count bytes at a time until a read is empty
                  LET next_power == NextPower(byte_count)
                      pad_factor == next_power - byte_count
                      avail == Len(b) - p
                      whole == avail \div byte_count
                      sample(i) == UnpackSigned(
                          [k \in 1..pad_factor |-> 0]
                              \o FileRead(b, p + (i - 1) * byte_count,
                                          byte_count))
                      nframes == whole \div r.channels
                  IN  IF next_power \notin format_map
                      THEN [out |-> <<>>, err |-> "KeyError", pos |-> p]
                      ELSE [out |-> [f \in 1..nframes |->
                                [c \in 1..r.channels |->
                                    sample((f - 1) * r.channels + c)]],
                            err |-> IF avail % byte_count # 0
                                    THEN "struct.error" ELSE "none",
                            pos |-> Len(b)]
             ELSE LET frames == FileRead(b, p, size)
                      data == _unpack(count * r.channels, byte_count, frames)
                      q == p + Len(frames)
                  IN  IF frames = <<>>
                      THEN [out |-> <<>>, err |-> "none", pos |-> q]
                      ELSE IF byte_count \notin format_map
                      THEN [out |-> <<>>, err |-> "KeyError", pos |-> q]
                      ELSE IF data.kind = "struct.error"
                      THEN [out |-> <<>>, err |-> "struct.error", pos |-> q]
                      ELSE IF data.kind = "scalar"
                      \* data[i:i+self.channels] of an int
                      THEN [out |-> <<>>, err |-> "TypeError", pos |-> q]
                      ELSE [out |-> [f \in 1..count |->
                                SubSeq(data.vals, (f - 1) * r.channels + 1,
                                       f * r.channels)],
                            err |-> "none", pos |-> q]

read_raw_data ==
    \E count \in 0..MaxCount :
        ReadOp("read_raw_data", count, RawData(reader, src, pos, count))

read_raw_frames ==
    \E count \in 0..MaxCount :
        ReadOp("read_raw_frames", count, RawFrames(reader, src, pos, count))

read_frames ==
    \E count \in 0..MaxCount :
        ReadOp("read_frames", count, Frames(reader, src, pos, count))

Init ==
    /\ writer = set_defaults
    /\ sink = <<>>
    /\ snap = NoSnap
    /\ payload = <<>>
    /\ wop = [op |-> "init", data |-> <<>>, err |-> "none"]
    /\ log = [calls |-> "none", clean |-> TRUE]
    /\ ops = 0
    /\ src = <<>>
    /\ damage = NoDamage
    /\ rstate = "none"
    /\ rerr = "none"
    /\ reader = NoReader
    /\ pos = 0
    /\ rop = [op |-> "init", count |-> 0, out |-> <<>>, err |-> "none",
              start |-> 0]

\* Any caller of the Writer: setters and writes in any order, and a Reader
\* constructed over the stream as written.
Next ==
    \/ set_channels
    \/ set_frames
    \/ set_sample_width
    \/ set_frame_rate
    \/ set_parameters
    \/ write_raw_data
    \/ write_raw_frames
    \/ write_frames
    \/ OpenReader({NoDamage})

Spec == Init /\ [][Next]_vars

\* A caller that keeps the Writer's protocol (attributes set, all four at
\* once, before the first write; frames written with write_frames), and a
\* Reader over the stream as the environment hands it over.
NextStream ==
    \/ (set_parameters /\ ~writer.header_written)
    \/ write_frames
    \/ OpenReader(CutChoices)
    \/ read_raw_data
    \/ read_raw_frames
    \/ read_frames

SpecStream == Init /\ [][NextStream]_vars

\* The same caller writing raw bytes, and a Reader over the stream with
\* header fields overwritten.
NextHeader ==
    \/ (set_parameters /\ ~writer.header_written)
    \/ write_raw_data
    \/ OpenReader(CorruptChoices)

SpecHeader == Init /\ [][NextHeader]_vars

(***************************************************************************)
(* The claims.                                                             *)
(***************************************************************************)
\* The reader stands right behind the header of a stream that one clean
\* write_frames call produced, and has made one read_frames call since.
WrittenByOneCall ==
    /\ log.calls = "one" /\ log.clean /\ wop.op = "write_frames"
    /\ damage = NoDamage

FirstReadFrames ==
    rstate = "open" /\ rop.op = "read_frames" /\ rop.start = 44

ShapeMatches ==
    /\ Len(wop.data) = snap.frames
    /\ \A i \in 1..Len(wop.data) : Len(wop.data[i]) = snap.channels

\* C1: for valid attributes (channels >= 1, sample_width in {1, 2, 4},
\* frame_rate >= 1) and frames of matching shape, the frames written with
\* write_frames and read back with read_frames(frame_count) come back the
\* same, in the same order, without an error; a single one-channel frame
\* included.
C1_RoundTrip ==
    ( /\ WrittenByOneCall
      /\ snap.channels >= 1 /\ snap.sample_width \in {1, 2, 4}
      /\ snap.frame_rate >= 1
      /\ ShapeMatches
      /\ FirstReadFrames /\ rop.count = snap.frames )
    => (rop.err = "none" /\ rop.out = wop.data)

C3_LateSettersNoEffect ==
    [][ ( /\ writer.header_written
          /\ snap.channels >= 1 /\ snap.sample_width >= 1
          /\ ops' = ops + 1 /\ wop'.op = "write_frames" )
        => sink' = sink \o EncodeFrames(snap, wop'.data).bytes ]_vars

\* C4: with a valid header and fewer than frame_count complete frames of
\* data behind it, read_frames(frame_count) raises no error and yields the
\* complete frames present, fewer than frame_count.
C4_TruncatedSource ==
    LET avail == Len(src) - 44
    IN  ( /\ FirstReadFrames /\ rop.count = reader.frames
          /\ avail < reader.frames * reader.frame_size )
        => /\ rop.err = "none"
           /\ Len(rop.out) = avail \div reader.frame_size
           /\ Len(rop.out) < rop.count

\* C5: every byte group read_raw_frames yields has channels * sample_width
\* bytes; the bytes of a trailing partial frame are not yielded.
C5_WholeGroups ==
    (rstate = "open" /\ rop.op = "read_raw_frames")
    => /\ rop.err = "none"
       /\ \A i \in 1..Len(rop.out) :
              Len(rop.out[i]) = reader.channels * reader.sample_width

\* C6: in a 1-channel stream of sample width 3, the sample -1 written with
\* write_frames is read back as -1 by read_frames.
C6_OddWidthRoundTrip ==
    ( /\ WrittenByOneCall
      /\ snap.channels = 1 /\ snap.sample_width = 3
      /\ wop.data = << <<-1>> >>
      /\ FirstReadFrames /\ rop.count = 1 )
    => rop.out = << <<-1>> >>

\* C7: a Reader over the written stream has the channels, sample_width,
\* frame_rate and frame_count the Writer had at its first write (channels
\* >= 1, sample_width >= 1), whatever setters were called after it.
C7_HeaderRoundTrip ==
    ( /\ rstate # "none" /\ damage = NoDamage /\ log.calls # "none"
      /\ snap.channels >= 1 /\ snap.sample_width >= 1 )
    => /\ rstate = "open"
       /\ reader.channels = snap.channels
       /\ reader.sample_width = snap.sample_width
       /\ reader.frame_rate = snap.frame_rate
       /\ reader.frames = snap.frames

\* C7's case: a Reader is open over a stream whose Writer had its
\* attributes changed after the first write.
C7_Witness ==
    /\ rstate = "open" /\ damage = NoDamage
    /\ snap.channels >= 1 /\ snap.sample_width = 3
    /\ Attrs(writer) # snap

\* The five fixed fields in the order of the layout
FirstCorrupted(c) ==
    IF "RIFF" \in c THEN "RIFF"
    ELSE IF "WAVE" \in c THEN "WAVE"
    ELSE IF "fmt" \in c THEN "fmt"
    ELSE IF "audio_format" \in c THEN "audio_format"
    ELSE "data"

\* C8: with any of the five fixed fields of a written header corrupted
\* (RIFF, WAVE, fmt, the audio-format code, data), the construction of the
\* Reader fails, and with the error of the first corrupted field in layout
\* order.
C8_TagValidation ==
    (rstate # "none" /\ damage.corrupt \ {"fmt_size"} # {})
    => /\ rstate = "failed"
       /\ rerr = FirstCorrupted(damage.corrupt)

\* C8's case: the audio-format code and the data tag are both corrupted,
\* and the construction failed on the audio-format code.
C8_Witness ==
    /\ rstate = "failed" /\ rerr = "audio_format"
    /\ damage.corrupt = {"audio_format", "data"}

\* C9: a header whose tags and audio-format code are valid and whose fmt
\* sub-chunk size is not 16 makes the construction of the Reader fail.
C9_FmtSizeRejected ==
    (rstate # "none" /\ damage.corrupt = {"fmt_size"}) => rstate = "failed"

\* C10: read_frames(count) yields at most count frames of `channels`
\* integers each and consumes at most count * channels * sample_width
\* bytes, for every sample width.
C10_AtMostCount ==
    (rstate = "open" /\ rop.op = "read_frames")
    => /\ Len(rop.out) <= rop.count
       /\ \A i \in 1..Len(rop.out) : Len(rop.out[i]) = reader.channels
       /\ pos - rop.start <= rop.count * reader.channels * reader.sample_width

====
